---- MODULE Spec2Model ----
(***************************************************************************)
(* Model of the Sprig VS Code extension (src/src/extension.ts).            *)
(*                                                                         *)
(* Two subsystems are modelled, each as the asynchronous steps of its      *)
(* command handlers on the single-threaded event loop:                     *)
(*   - the persistence accessor SprigManager (executeQuery, searchItems,   *)
(*     saveItem) with the sprig.searchSnippets / sprig.saveSelection       *)
(*     handlers that call it (specification StoreSpec);                    *)
(*   - the locator / launcher of the sprig.openBrowser handler             *)
(*     (specification Spec).                                               *)
(* Both start from the extension's activation, which registers the         *)
(* commands.  Every callback of the source is one action; code that runs   *)
(* synchronously after a callback (up to the next await) belongs to the    *)
(* same action.                                                            *)
(***************************************************************************)
EXTENDS Integers, Sequences, FiniteSets, TLC

\* ---------------------------------------------------------------- bounds
MaxCalls == 1     \* store-command handler runs in flight at once
MaxItems == 2     \* rows the store may hold
MaxRuns == 2      \* sprig.openBrowser handler runs in flight at once
MaxChildren == 2  \* spawned processes alive at once

VARIABLES
    hostState,    \* "inactive" | "active" | "deactivated": the extension in its host
    registered,   \* the command ids registered with vscode.commands
    sqlite3,      \* SprigManager.sqlite3: "null" | "loaded"
    driverLoads,  \* environment: whether require('sqlite3') succeeds
    items,        \* the rows of table items of ~/.sprig/sprig.db, in rowid order
    clock,        \* environment: datetime('now'), in whole seconds
    calls,        \* the runs of the store-command handlers
    lastSave,     \* history: the last saveItem that returned to its caller, as
                  \* the number of rows the store held before its insert
    exists,       \* environment: the indices of possiblePaths that exist on disk
    whereOut,     \* environment: what `where <name>` yields, per name
    devMarker,    \* environment: whether a development-mode project marker
                  \* file exists in a sibling directory; no handler reads it
    runs,         \* the runs of the sprig.openBrowser handler
    children      \* the spawned, detached processes that have not exited yet

vars == << hostState, registered, sqlite3, driverLoads, items, clock, calls,
           lastSave, exists, whereOut, devMarker, runs, children >>

storeVars == << sqlite3, driverLoads, items, clock, calls, lastSave >>
launchVars == << exists, whereOut, devMarker, runs, children >>

\* ------------------------------------------------------------ activation
\* The six command ids activate() registers.
ActivateCommandsNoInsert ==
    { "sprig.searchSnippets", "sprig.saveSelection", "sprig.openBrowser",
      "sprig.quickSave", "sprig.iconClick" }

ActivateCommands ==
    { "sprig.searchSnippets", "sprig.saveSelection", "sprig.openBrowser",
      "sprig.insertSnippet", "sprig.quickSave", "sprig.iconClick" }

\* activate(context): registers the commands and pushes them on
\* context.subscriptions.
Activate ==
    /\ hostState = "inactive"
    /\ hostState' = "active"
    /\ registered' = registered \cup ActivateCommands
    /\ UNCHANGED << storeVars, launchVars >>

\* deactivate(): the function body is empty; the host disposes
\* context.subscriptions, which unregisters the commands.
Deactivate ==
    /\ hostState = "active"
    /\ hostState' = "deactivated"
    /\ registered' = registered \ ActivateCommands
    /\ UNCHANGED << storeVars, launchVars >>

\* ------------------------------------------------------------- the store
\* ORDER BY created_at DESC: every ordering of the rows in which created_at
\* never increases.  SQL leaves the order of rows with equal keys open.
SelectOrderByCreatedAtDesc(rows) ==
    LET n == Len(rows)
        perms == { p \in [1..n -> 1..n] : \A i, j \in 1..n : i # j => p[i] # p[j] }
    IN  { [i \in 1..n |-> rows[p[i]]] : p \in
            { q \in perms : \A i, j \in 1..n :
                 i < j => rows[q[i]].created_at >= rows[q[j]].created_at } }

\* INSERT INTO items (...) VALUES (?, ?, ?, ?, ?, datetime('now')): the row
\* the store adds; id is the next rowid.
InsertRow(rows, item, now) ==
    Append(rows, [ id |-> Len(rows) + 1, title |-> item.title,
                   content |-> item.content, language |-> item.language,
                   type |-> item.type, tags |-> item.tags, created_at |-> now ])

NoItem == [ title |-> "", content |-> "", language |-> "", type |-> "", tags |-> "" ]

NoSave == [ saved |-> FALSE, n |-> 0 ]

IdleCall ==
    [ cmd |-> "none", pc |-> "idle", item |-> NoItem, conn |-> "none",
      closeCb |-> FALSE, promise |-> "pending", err |-> "", rows |-> << >>,
      attempts |-> 0, n |-> 0, base |-> 0,
      returned |-> "none", result |-> << >>, msg |-> "none",
      tagsIn |-> "", quick |-> "" ]

CallIds == 1..MaxCalls

\* getSqlite3(): the cached driver, loaded on first use; FALSE when the
\* require throws.
GetSqlite3Ok == sqlite3 = "loaded" \/ driverLoads

\* searchItems(): the rows, or [] when executeQuery rejected.
SearchItemsRethrow(promise, rows) ==
    IF promise = "resolved" THEN [ kind |-> "value", value |-> rows ]
                            ELSE [ kind |-> "threw", value |-> << >> ]

searchItems(promise, rows) ==
    IF promise = "resolved" THEN [ kind |-> "value", value |-> rows ]
                            ELSE [ kind |-> "value", value |-> << >> ]

\* saveItem(): returns, or rethrows what executeQuery rejected with.
SaveItemSwallow(promise) == [ kind |-> "value", value |-> << >> ]

saveItem(promise) ==
    IF promise = "resolved" THEN [ kind |-> "value", value |-> << >> ]
                            ELSE [ kind |-> "threw", value |-> << >> ]

\* The rest of the sprig.saveSelection handler once saveItem has settled:
\* the success message, or the error message of the catch.
SaveSelectionResume(rec) ==
    LET ret == saveItem(rec.promise) IN
    [ rec EXCEPT !.pc = "done", !.returned = ret.kind,
                 !.msg = IF ret.kind = "value" THEN "saved" ELSE "saveError" ]

\* The rest of the sprig.searchSnippets handler once searchItems has
\* settled, up to the quick pick it awaits when there are items.
SearchSnippetsResume(rec) ==
    LET ret == searchItems(rec.promise, rec.rows) IN
    [ rec EXCEPT !.returned = ret.kind, !.result = ret.value, !.rows = << >>,
                 !.pc = IF ret.kind = "value" /\ Len(ret.value) > 0
                        THEN "picking" ELSE "done",
                 !.msg = IF ret.kind = "threw" THEN "searchError"
                         ELSE IF Len(ret.value) = 0 THEN "noItems" ELSE "none" ]

\* The promise of executeQuery has settled: the awaiting searchItems or
\* saveItem resumes in the same turn of the event loop, and with it the
\* handler that awaits it.
Resume(rec) ==
    IF rec.cmd = "save" THEN SaveSelectionResume(rec) ELSE SearchSnippetsResume(rec)

\* reject(error) inside executeQuery.
Reject(rec, err) ==
    Resume([ rec EXCEPT !.promise = "rejected", !.err = err ])

\* resolve(rows || []) inside executeQuery.
Resolve(rec) ==
    Resume([ rec EXCEPT !.promise = "resolved" ])

\* The synchronous part of executeQuery: the Promise executor loads the
\* driver (a throw rejects the promise), opens a connection of its own and
\* queues the one db.all call.
ExecuteQueryStart(rec) ==
    IF GetSqlite3Ok
    THEN [ rec EXCEPT !.pc = "opening", !.conn = "opening", !.attempts = @ + 1 ]
    ELSE Reject(rec, "load")

\* The error branch of the db.all callback: db.close() without a callback,
\* then reject at once.
QueryErrorBranch(rec) ==
    Reject([ rec EXCEPT !.conn = "closing", !.closeCb = FALSE ], "query")

\* The success branch of the db.all callback: db.close(cb); the promise
\* resolves in cb.
QueryOkBranch(rec, rows) ==
    [ rec EXCEPT !.conn = "closing", !.closeCb = TRUE, !.rows = rows,
                 !.pc = "closing" ]

\* The history of the last saveItem that returned, after a step that took
\* the call c to rec.
LastSaveAfter(rec) ==
    IF rec.cmd = "save" /\ rec.pc = "done" /\ rec.returned = "value"
    THEN [ saved |-> TRUE, n |-> rec.n ]
    ELSE lastSave

\* The editor states a handler can find: no active editor, an empty
\* selection, a selection.
EditorStates == { "none", "empty", "selection" }
\* What showInputBox can return for the title: "" stands for undefined
\* (cancelled) and for the empty string, both falsy.
TitleInputs == { "", "clamp" }
\* The entries of the type quick pick.
ItemTypes == { "snippet", "template", "function", "component" }
\* What the type quick pick can return: "" stands for undefined.
TypeInputs == { "", "function" }
\* What showInputBox can return for the tags: undefined when the prompt was
\* cancelled, else the text entered.
TagInputs == { "undefined", "math,util" }

\* tags || '': undefined and the empty string both become ''.
OrEmpty(tags) == IF tags \in { "undefined", "" } THEN "" ELSE tags

\* editor.document.getText(editor.selection).
SelectedText(editor) == IF editor = "selection" THEN "x=1" ELSE ""

\* The slot a new handler run takes: the lowest free one.
FreeCall(c) ==
    /\ calls[c].pc = "idle"
    /\ \A d \in CallIds : d < c => calls[d].pc # "idle"

\* The inserts that have been queued and have not run yet.
PendingSaves ==
    Cardinality({ c \in CallIds : calls[c].cmd \in { "save", "quick" }
                                  /\ calls[c].pc \in { "dispatched", "opening",
                                                       "querying" } })

\* The sprig.saveSelection handler from its start to the first suspension
\* inside executeQuery: the editor guard, the title and type prompts with
\* their early returns, the tags prompt, and the call of saveItem.  A prompt
\* answers in a turn of its own, but nothing else of the run is visible
\* before saveItem is called.
SaveSelectionRunNoTypeCheck(editor, title, type, tags) ==
    LET rec == [ IdleCall EXCEPT !.cmd = "save" ] IN
    IF editor # "selection"
    THEN [ rec EXCEPT !.pc = "done", !.msg = "selectSomeCode" ]
    ELSE IF title = ""
    THEN [ rec EXCEPT !.pc = "done" ]
    ELSE ExecuteQueryStart(
           [ rec EXCEPT !.tagsIn = tags,
                        !.item = [ title |-> title, content |-> SelectedText(editor),
                                   language |-> "javascript", type |-> type,
                                   tags |-> OrEmpty(tags) ] ])

SaveSelectionRun(editor, title, type, tags) ==
    LET rec == [ IdleCall EXCEPT !.cmd = "save" ] IN
    IF editor # "selection"
    THEN [ rec EXCEPT !.pc = "done", !.msg = "selectSomeCode" ]
    ELSE IF title = ""
    THEN [ rec EXCEPT !.pc = "done" ]
    ELSE IF type = ""
    THEN [ rec EXCEPT !.pc = "done" ]
    ELSE ExecuteQueryStart(
           [ rec EXCEPT !.tagsIn = tags,
                        !.item = [ title |-> title, content |-> SelectedText(editor),
                                   language |-> "javascript", type |-> type,
                                   tags |-> OrEmpty(tags) ] ])

\* A run of the sprig.saveSelection handler in the slot c.
SaveSelectionHandler(c) ==
    /\ \E editor \in EditorStates, title \in TitleInputs, type \in TypeInputs,
          tags \in TagInputs :
          LET new == SaveSelectionRun(editor, title, type, tags)
          IN  /\ calls' = [ calls EXCEPT ![c] = new ]
              /\ sqlite3' = IF new.attempts > 0 THEN "loaded" ELSE sqlite3
    /\ UNCHANGED << hostState, registered, driverLoads, items, clock, lastSave,
                    launchVars >>

\* sprig.saveSelection, run from the command palette or the context menu.
SaveSelection(c) ==
    /\ "sprig.saveSelection" \in registered
    /\ FreeCall(c)
    /\ Len(items) + PendingSaves < MaxItems
    /\ SaveSelectionHandler(c)

\* The sprig.quickSave handler for the editor state it finds: a warning
\* without an active editor, an information message on an empty selection,
\* else executeCommand('sprig.saveSelection').
QuickSaveRun(editor) ==
    LET rec == [ IdleCall EXCEPT !.cmd = "quick", !.quick = editor ] IN
    IF editor = "none"
    THEN [ rec EXCEPT !.pc = "done", !.msg = "noActiveEditor" ]
    ELSE IF editor = "empty"
    THEN [ rec EXCEPT !.pc = "done", !.msg = "selectFirst" ]
    ELSE [ rec EXCEPT !.pc = "dispatched" ]

\* sprig.quickSave (ctrl+shift+s).
QuickSave(c) ==
    /\ "sprig.quickSave" \in registered
    /\ FreeCall(c)
    /\ Len(items) + PendingSaves < MaxItems
    /\ \E editor \in EditorStates :
          calls' = [ calls EXCEPT ![c] = QuickSaveRun(editor) ]
    /\ UNCHANGED << hostState, registered, sqlite3, driverLoads, items, clock,
                    lastSave, launchVars >>

\* The command service runs the sprig.saveSelection handler that
\* sprig.quickSave asked for; the handler reads the editor anew.
QuickSaveDispatch(c) ==
    /\ calls[c].cmd = "quick"
    /\ calls[c].pc = "dispatched"
    /\ "sprig.saveSelection" \in registered
    /\ SaveSelectionHandler(c)

\* sprig.searchSnippets: the call of searchItems up to the first suspension
\* inside executeQuery.
SearchSnippets(c) ==
    /\ "sprig.searchSnippets" \in registered
    /\ FreeCall(c)
    /\ LET new == ExecuteQueryStart(
                    [ IdleCall EXCEPT !.cmd = "search",
                        !.base = IF lastSave.saved /\ lastSave.n + 1 = Len(items)
                                 THEN Len(items) ELSE 0 ])
       IN  /\ calls' = [ calls EXCEPT ![c] = new ]
           /\ sqlite3' = IF new.attempts > 0 THEN "loaded" ELSE sqlite3
    /\ UNCHANGED << hostState, registered, driverLoads, items, clock, lastSave,
                    launchVars >>

\* sprig.insertSnippet: executeCommand('sprig.searchSnippets').
InsertSnippet(c) ==
    /\ "sprig.insertSnippet" \in registered
    /\ SearchSnippets(c)

\* sprig.iconClick with the 'Search Sprig Library' entry picked:
\* executeCommand('sprig.searchSnippets').
IconClickSearch(c) ==
    /\ "sprig.iconClick" \in registered
    /\ SearchSnippets(c)

\* sprig.iconClick with the 'Save Selection' entry picked:
\* executeCommand('sprig.saveSelection').
IconClickSave(c) ==
    /\ "sprig.iconClick" \in registered
    /\ SaveSelection(c)

\* The callback of new sqlite3.Database(dbPath, cb): the open succeeded, or
\* it failed and the promise is rejected.  After a failed open the queued
\* db.all can only fail as well; its reject is then a no-op.
OpenDone(c) ==
    /\ calls[c].pc = "opening"
    /\ \E ok \in BOOLEAN :
          calls' = [ calls EXCEPT ![c] =
              IF ok THEN [ @ EXCEPT !.conn = "open", !.pc = "querying" ]
                    ELSE Reject([ @ EXCEPT !.conn = "failed" ], "open") ]
    /\ UNCHANGED << hostState, registered, sqlite3, driverLoads, items, clock,
                    lastSave, launchVars >>

\* db.all(query, params, cb): the statement runs against the store and the
\* callback closes the connection.
AllDone(c) ==
    /\ calls[c].pc = "querying"
    /\ \/ /\ calls' = [ calls EXCEPT ![c] = QueryErrorBranch(@) ]
          /\ items' = items
       \/ /\ calls[c].cmd = "search"
          /\ \E rows \in SelectOrderByCreatedAtDesc(items) :
                calls' = [ calls EXCEPT ![c] = QueryOkBranch(@, rows) ]
          /\ items' = items
       \/ /\ calls[c].cmd = "save"
          /\ items' = InsertRow(items, calls[c].item, clock)
          /\ calls' = [ calls EXCEPT ![c] =
                          QueryOkBranch([ @ EXCEPT !.n = Len(items) ], << >>) ]
    /\ UNCHANGED << hostState, registered, sqlite3, driverLoads, clock, lastSave,
                    launchVars >>

\* The connection finishes closing; the callback of db.close(cb), when one
\* was given, then resolves the promise.
CloseDone(c) ==
    /\ calls[c].conn = "closing"
    /\ LET new == IF calls[c].closeCb
                  THEN Resolve([ calls[c] EXCEPT !.conn = "closed" ])
                  ELSE [ calls[c] EXCEPT !.conn = "closed" ]
       IN  /\ calls' = [ calls EXCEPT ![c] = new ]
           /\ lastSave' = IF calls[c].closeCb THEN LastSaveAfter(new) ELSE lastSave
    /\ UNCHANGED << hostState, registered, sqlite3, driverLoads, items, clock,
                    launchVars >>

\* The quick pick of sprig.searchSnippets returns: the picked item (0 for
\* none) is inserted when there is an active editor.
PickDone(c) ==
    /\ calls[c].pc = "picking"
    /\ \E selected \in 0..Len(calls[c].result), editor \in EditorStates :
          calls' = [ calls EXCEPT ![c] =
              [ @ EXCEPT !.pc = "done",
                         !.msg = IF selected # 0 /\ editor # "none"
                                 THEN "inserted" ELSE "none" ] ]
    /\ UNCHANGED << hostState, registered, sqlite3, driverLoads, items, clock,
                    lastSave, launchVars >>

\* The handler's run is over and its connection gone: the slot is free.
Retire(c) ==
    /\ calls[c].pc = "done"
    /\ calls[c].conn # "closing"
    /\ calls' = [ calls EXCEPT ![c] = IdleCall ]
    /\ UNCHANGED << hostState, registered, sqlite3, driverLoads, items, clock,
                    lastSave, launchVars >>

\* A second of wall-clock time passes.  Only the order of the timestamps
\* matters, so the clock is kept to the ranks the rows can need: it runs at
\* most one second ahead of the number of rows.
Tick ==
    /\ clock <= Len(items)
    /\ clock' = clock + 1
    /\ UNCHANGED << hostState, registered, sqlite3, driverLoads, items, calls,
                    lastSave, launchVars >>

\* ------------------------------------------------------------ the launcher
\* possiblePaths of the sprig.openBrowser handler, in the order it is built
\* (~ stands for os.homedir()).
possiblePaths ==
    << "C:/Program Files/Sprig/Sprig.exe",
       "C:/Program Files (x86)/Sprig/Sprig.exe",
       "C:/Program Files/Sprig/sprig.exe",
       "C:/Program Files (x86)/Sprig/sprig.exe",
       "~/AppData/Local/Sprig/Sprig.exe",
       "~/Desktop/Sprig.exe" >>

\* The names given to `where`, in the order of the nested exec calls.
WhereNames == << "Sprig.exe", "sprig.exe" >>

\* What exec('where <name>') can hand to its callback: an error, or the
\* lines of the trimmed stdout.
WhereOutputs(name) ==
    { [ error |-> TRUE, stdout |-> << >> ],
      [ error |-> FALSE, stdout |-> << "D:/tools/" \o name >> ] }

\* fileExists(filePath): fs.access resolved to !err, never rejects.
fileExists(i) == i \in exists

IdleRun ==
    [ pc |-> "idle", inflight |-> {}, probed |-> << >>, sprigPath |-> "",
      lookups |-> << >>, lookInflight |-> {}, resolves |-> 0,
      attempts |-> << >>, spawned |-> << >>, notes |-> << >>,
      action |-> "", opened |-> FALSE ]

RunIds == 1..MaxRuns

\* if (sprigPath) { spawn ... } else { download prompt }: the branch taken
\* once the search is over.  spawn(sprigPath, [], { detached: true, stdio:
\* 'ignore', shell: true }) either returns a child or throws.
LaunchAlways(rec, throws) ==
    [ rec EXCEPT !.pc = "done", !.attempts = Append(@, "shell"),
                 !.spawned = Append(@, [ file |-> rec.sprigPath, args |-> << >>,
                                         detached |-> TRUE, shell |-> TRUE ]),
                 !.notes = Append(@, "launched") ]

LaunchOrPrompt(rec, throws) ==
    IF rec.sprigPath # ""
    THEN IF throws
         THEN [ rec EXCEPT !.pc = "done", !.attempts = Append(@, "shell"),
                           !.notes = Append(@, "launchFailed") ]
         ELSE [ rec EXCEPT !.pc = "done", !.attempts = Append(@, "shell"),
                           !.spawned = Append(@, [ file |-> rec.sprigPath,
                                                   args |-> << >>,
                                                   detached |-> TRUE,
                                                   shell |-> TRUE ]),
                           !.notes = Append(@, "launched") ]
    ELSE [ rec EXCEPT !.pc = "prompt", !.notes = Append(@, "notInstalled") ]

\* The body of the for loop over possiblePaths after the probe of
\* candidate i has answered: on a hit the loop breaks and, sprigPath being
\* set, the PATH lookup is skipped; otherwise the next candidate is probed,
\* or, after the last one, `where Sprig.exe` is issued.
ScanNoBreak(rec, i, found, throws) ==
    LET hit == IF found THEN [ rec EXCEPT !.sprigPath = possiblePaths[i] ] ELSE rec
        r1 == [ hit EXCEPT !.inflight = @ \ { i } ]
    IN  IF i < Len(possiblePaths)
        THEN [ r1 EXCEPT !.inflight = @ \cup { i + 1 }, !.probed = Append(@, i + 1) ]
        ELSE IF r1.sprigPath # ""
        THEN LaunchOrPrompt(r1, throws)
        ELSE [ r1 EXCEPT !.pc = "where", !.lookups = << WhereNames[1] >>,
                         !.lookInflight = { WhereNames[1] } ]

ScanStep(rec, i, found, throws) ==
    LET r1 == [ rec EXCEPT !.inflight = @ \ { i } ] IN
    IF found
    THEN LaunchOrPrompt([ r1 EXCEPT !.sprigPath = possiblePaths[i] ], throws)
    ELSE IF i < Len(possiblePaths)
    THEN [ r1 EXCEPT !.inflight = @ \cup { i + 1 }, !.probed = Append(@, i + 1) ]
    ELSE [ r1 EXCEPT !.pc = "where", !.lookups = << WhereNames[1] >>,
                     !.lookInflight = { WhereNames[1] } ]

\* resolve() of the promise around the PATH lookup: the first call ends
\* the await, and the handler goes on to the launch-or-prompt branch in the
\* same turn; a later call does nothing.
ResolveSearch(rec, throws) ==
    IF rec.resolves = 0
    THEN LaunchOrPrompt([ rec EXCEPT !.resolves = 1 ], throws)
    ELSE [ rec EXCEPT !.resolves = @ + 1 ]

\* The callbacks of exec('where Sprig.exe') and of the nested
\* exec('where sprig.exe').
WhereCallbackNoReturn(rec, name, out, throws) ==
    LET r1 == [ rec EXCEPT !.lookInflight = @ \ { name } ]
        ok == ~out.error /\ out.stdout # << >>
    IN  IF ok
        THEN ResolveSearch([ r1 EXCEPT !.sprigPath = out.stdout[1] ], throws)
        ELSE IF name = WhereNames[1]
        THEN ResolveSearch([ r1 EXCEPT !.lookups = Append(@, WhereNames[2]),
                                       !.lookInflight = @ \cup { WhereNames[2] } ],
                           throws)
        ELSE ResolveSearch(r1, throws)

WhereCallback(rec, name, out, throws) ==
    LET r1 == [ rec EXCEPT !.lookInflight = @ \ { name } ]
        ok == ~out.error /\ out.stdout # << >>
    IN  IF ok
        THEN ResolveSearch([ r1 EXCEPT !.sprigPath = out.stdout[1] ], throws)
        ELSE IF name = WhereNames[1]
        THEN [ r1 EXCEPT !.lookups = Append(@, WhereNames[2]),
                         !.lookInflight = @ \cup { WhereNames[2] } ]
        ELSE ResolveSearch(r1, throws)

\* The slot a new run of the handler takes: the lowest free one.
FreeRun(r) ==
    /\ runs[r].pc = "idle"
    /\ \A q \in RunIds : q < r => runs[q].pc # "idle"

\* The runs that may still spawn.
SearchingRuns == Cardinality({ r \in RunIds : runs[r].pc \in { "scan", "where" } })

\* The processes a step of run r has spawned.
Spawns(r, new) == Len(new.spawned) - Len(runs[r].spawned)

\* sprig.openBrowser is invoked: the handler runs up to the await of the
\* first fileExists.
OpenBrowser(r) ==
    /\ "sprig.openBrowser" \in registered
    /\ FreeRun(r)
    /\ children + SearchingRuns < MaxChildren
    /\ runs' = [ runs EXCEPT ![r] =
                   [ IdleRun EXCEPT !.pc = "scan", !.inflight = { 1 },
                                    !.probed = << 1 >> ] ]
    /\ UNCHANGED << hostState, registered, storeVars, exists, whereOut, devMarker, children >>

\* sprig.iconClick with the 'Browse Sprig Desktop App' entry picked:
\* executeCommand('sprig.openBrowser').
IconClickBrowse(r) ==
    /\ "sprig.iconClick" \in registered
    /\ OpenBrowser(r)

\* The callback of fs.access for candidate i.
ProbeDone(r, i) ==
    /\ i \in runs[r].inflight
    /\ \E throws \in BOOLEAN :
          LET new == ScanStep(runs[r], i, fileExists(i), throws) IN
          /\ runs' = [ runs EXCEPT ![r] = new ]
          /\ children' = children + Spawns(r, new)
    /\ UNCHANGED << hostState, registered, storeVars, exists, whereOut, devMarker >>

\* The callback of exec('where <name>').
WhereDone(r, name) ==
    /\ name \in runs[r].lookInflight
    /\ \E throws \in BOOLEAN :
          LET new == WhereCallback(runs[r], name, whereOut[name], throws) IN
          /\ runs' = [ runs EXCEPT ![r] = new ]
          /\ children' = children + Spawns(r, new)
    /\ UNCHANGED << hostState, registered, storeVars, exists, whereOut, devMarker >>

\* The buttons of the 'not installed' message; "" stands for a dismissal.
PromptActions == { "Download Sprig Desktop App", "Cancel", "" }

\* The 'not installed' message returns: the download page is opened when
\* its button was picked.
PromptDone(r) ==
    /\ runs[r].pc = "prompt"
    /\ \E action \in PromptActions :
          runs' = [ runs EXCEPT ![r] =
              [ @ EXCEPT !.pc = "done", !.action = action,
                         !.opened = (action = "Download Sprig Desktop App") ] ]
    /\ UNCHANGED << hostState, registered, storeVars, exists, whereOut, devMarker, children >>

\* A spawned process exits; being detached and unref'ed, nothing in the
\* extension notices.
ChildExit ==
    /\ children > 0
    /\ children' = children - 1
    /\ UNCHANGED << hostState, registered, storeVars, exists, whereOut, devMarker, runs >>

\* The handler's run is over and no callback of it is outstanding: the slot
\* is free.
RetireRun(r) ==
    /\ runs[r].pc = "done"
    /\ runs[r].lookInflight = {}
    /\ runs[r].inflight = {}
    /\ runs' = [ runs EXCEPT ![r] = IdleRun ]
    /\ UNCHANGED << hostState, registered, storeVars, exists, whereOut, devMarker, children >>

InitLaunchIdle ==
    /\ exists = {}
    /\ devMarker = FALSE
    /\ whereOut = [ n \in { WhereNames[1], WhereNames[2] } |->
                      [ error |-> TRUE, stdout |-> << >> ] ]
    /\ runs = [ r \in RunIds |-> IdleRun ]
    /\ children = 0

InitLaunch ==
    /\ exists \in SUBSET (1..Len(possiblePaths))
    /\ devMarker \in BOOLEAN
    /\ whereOut \in { f \in [ { WhereNames[1], WhereNames[2] } ->
                               UNION { WhereOutputs(n) : n \in { WhereNames[1], WhereNames[2] } } ] :
                        \A n \in DOMAIN f : f[n] \in WhereOutputs(n) }
    /\ runs = [ r \in RunIds |-> IdleRun ]
    /\ children = 0

\* ----------------------------------------------------------- specifications
InitHost ==
    /\ hostState = "inactive"
    /\ registered = {}

InitStore ==
    /\ sqlite3 = "null"
    /\ driverLoads \in BOOLEAN
    /\ items = << >>
    /\ clock = 1
    /\ calls = [ c \in CallIds |-> IdleCall ]
    /\ lastSave = NoSave

InitStoreIdle ==
    /\ sqlite3 = "null"
    /\ driverLoads = TRUE
    /\ items = << >>
    /\ clock = 1
    /\ calls = [ c \in CallIds |-> IdleCall ]
    /\ lastSave = NoSave

StoreInit == InitHost /\ InitStore /\ InitLaunchIdle

\* The store subsystem while the extension is active.
StoreNext ==
    \/ Activate
    \/ \E c \in CallIds : SaveSelection(c)
    \/ \E c \in CallIds : SearchSnippets(c)
    \/ \E c \in CallIds : InsertSnippet(c)
    \/ \E c \in CallIds : IconClickSearch(c)
    \/ \E c \in CallIds : IconClickSave(c)
    \/ \E c \in CallIds : QuickSave(c)
    \/ \E c \in CallIds : QuickSaveDispatch(c)
    \/ \E c \in CallIds : OpenDone(c)
    \/ \E c \in CallIds : AllDone(c)
    \/ \E c \in CallIds : CloseDone(c)
    \/ \E c \in CallIds : PickDone(c)
    \/ \E c \in CallIds : Retire(c)
    \/ Tick

StoreSpec == StoreInit /\ [][StoreNext]_vars

Init == InitHost /\ InitStoreIdle /\ InitLaunch

\* The launcher subsystem over the life of the extension.
Next ==
    \/ Activate
    \/ Deactivate
    \/ \E r \in RunIds : OpenBrowser(r)
    \/ \E r \in RunIds : IconClickBrowse(r)
    \/ \E r \in RunIds : \E i \in 1..Len(possiblePaths) : ProbeDone(r, i)
    \/ \E r \in RunIds : \E k \in 1..Len(WhereNames) : WhereDone(r, WhereNames[k])
    \/ \E r \in RunIds : PromptDone(r)
    \/ \E r \in RunIds : RetireRun(r)
    \/ ChildExit

Spec == Init /\ [][Next]_vars

\* ------------------------------------------------------------------ claims
\* The fields of a row that come from the caller of saveItem.
RowInput(row) ==
    [ title |-> row.title, content |-> row.content, language |-> row.language,
      type |-> row.type, tags |-> row.tags ]

\* C1: a saveItem that returned, followed by a listItems whose read
\* succeeded with no other insert in between, yields exactly one row that
\* was not there before; that row carries the input, a store-assigned id
\* and created_at, the most recent created_at, and is the first element.
C1_SavedItemListedFirst ==
    /\ \A c \in CallIds :
          LET r == calls[c] IN
          (r.cmd = "save" /\ r.returned = "value") =>
             LET row == items[r.n + 1] IN
             /\ RowInput(row) = r.item
             /\ row.id > 0 /\ row.created_at > 0
             /\ \A k \in 1..r.n : items[k].id # row.id
                                  /\ items[k].created_at <= row.created_at
    /\ \A c \in CallIds :
          LET r == calls[c] IN
          (r.cmd = "search" /\ r.promise = "resolved" /\ r.returned = "value"
             /\ r.base > 0 /\ Len(r.result) = r.base) =>
             LET before == { items[k].id : k \in 1..(r.base - 1) }
                 new == { i \in 1..Len(r.result) : r.result[i].id \notin before }
             IN  /\ Cardinality(new) = 1
                 /\ \A i \in new : r.result[i] = items[r.base] /\ i = 1

\* C2: searchItems never throws: every search whose query promise has
\* settled has returned a sequence, no search ends in the handler's error
\* message, and the sequence is empty when the read failed or the store is
\* empty.
C2_SearchNeverThrows ==
    \A c \in CallIds :
       LET r == calls[c] IN
       r.cmd = "search" =>
          /\ r.returned # "threw"
          /\ r.msg # "searchError"
          /\ (r.promise # "pending" => r.returned = "value")
          /\ (r.returned = "value" /\ (r.promise = "rejected" \/ items = << >>)
                => r.result = << >> /\ r.msg = "noItems")

\* A search that could not open a store that holds rows has returned [].
C2_Witness ==
    \E c \in CallIds :
       /\ calls[c].cmd = "search" /\ calls[c].pc = "done"
       /\ calls[c].err = "open" /\ items # << >>
       /\ calls[c].returned = "value" /\ calls[c].result = << >>

\* C3: a failed insert is surfaced: saveItem throws to the handler, which
\* shows the error message and not 'Saved', and db.all was called once.
C3_FailedSaveSurfaced ==
    \A c \in CallIds :
       LET r == calls[c] IN
       r.cmd = "save" =>
          /\ r.attempts <= 1
          /\ (r.promise = "rejected" =>
                r.returned = "threw" /\ r.msg = "saveError" /\ r.pc = "done")
          /\ (r.err \in { "open", "query" } => r.attempts = 1 /\ r.promise = "rejected")
          /\ (r.msg = "saved" => r.promise = "resolved" /\ r.err = "")

\* A save whose statement failed has ended in the error message.
C3_Witness ==
    \E c \in CallIds :
       /\ calls[c].cmd = "save" /\ calls[c].pc = "done"
       /\ calls[c].err = "query" /\ calls[c].attempts = 1
       /\ calls[c].returned = "threw" /\ calls[c].msg = "saveError"

\* C9: once the promise of executeQuery has settled, and so the result or
\* the error has reached the caller, the connection of the call is closed
\* (a connection that never opened counts as released).
C9_ConnectionClosedOnReturn ==
    \A c \in CallIds :
       calls[c].promise # "pending" => calls[c].conn \in { "none", "failed", "closed" }

\* The index of the first candidate that exists, 0 when none does.
FirstExisting ==
    IF exists = {} THEN 0
    ELSE CHOOSE i \in exists : \A j \in exists : i <= j

\* Whether `where <name>` yields a path.
Yields(name) == ~whereOut[name].error /\ whereOut[name].stdout # << >>

\* The notifications of a run that report the outcome of a launch.
LaunchNotes(rec) ==
    SelectSeq(rec.notes, LAMBDA x : x \in { "launched", "launchFailed" })

\* C4: a launch goes through the chain shell, process-start helper, direct
\* execution, a later strategy being tried only after the one before it
\* failed; the outcome is reported once, and a failure only after all three
\* strategies have failed.
C4_LaunchFallbackChain ==
    \A r \in RunIds :
       LET rec == runs[r]
           chain == << "shell", "start", "direct" >>
       IN  /\ Len(rec.attempts) <= Len(chain)
           /\ \A k \in 1..Len(rec.attempts) : rec.attempts[k] = chain[k]
           /\ Len(LaunchNotes(rec)) <= 1
           /\ (rec.pc = "done" /\ rec.attempts # << >> => Len(LaunchNotes(rec)) = 1)
           /\ (LaunchNotes(rec) = << "launchFailed" >> => rec.attempts = chain)

\* C5: when no candidate exists and neither lookup yields a path, a run
\* spawns nothing, shows neither launch notification, ends after the
\* download prompt alone, and opens the download page only when the
\* download button was picked.
C5_NotFoundOnlyPrompts ==
    (exists = {} /\ ~Yields("Sprig.exe") /\ ~Yields("sprig.exe")) =>
       /\ children = 0
       /\ \A r \in RunIds :
             LET rec == runs[r] IN
             /\ rec.spawned = << >> /\ rec.attempts = << >>
             /\ LaunchNotes(rec) = << >>
             /\ (rec.pc \in { "prompt", "done" } => rec.notes = << "notInstalled" >>)
             /\ (rec.opened => rec.action = "Download Sprig Desktop App")
             /\ (rec.pc = "done" =>
                   rec.opened = (rec.action = "Download Sprig Desktop App"))

\* Nothing was found, the prompt was shown and the download page opened.
C5_Witness ==
    /\ exists = {} /\ ~Yields("Sprig.exe") /\ ~Yields("sprig.exe")
    /\ \E r \in RunIds :
          /\ runs[r].pc = "done" /\ runs[r].opened
          /\ Len(runs[r].probed) = Len(possiblePaths)
          /\ Len(runs[r].lookups) = 2

\* C6: the scan probes the candidates in list order, one at a time, none
\* after the first that exists and so at most N; it yields the first
\* existing candidate, and that is the path spawned.
C6_ScanFirstExisting ==
    \A r \in RunIds :
       LET rec == runs[r]
           n == Len(rec.probed)
       IN  /\ n <= Len(possiblePaths)
           /\ \A k \in 1..n : rec.probed[k] = k
           /\ Cardinality(rec.inflight) <= 1
           /\ \A i \in rec.inflight : i = n
           /\ \A k \in 1..(n - 1) : ~fileExists(rec.probed[k])
           /\ (rec.pc \in { "where", "prompt", "done" } =>
                 /\ rec.inflight = {}
                 /\ n = IF FirstExisting = 0 THEN Len(possiblePaths) ELSE FirstExisting)
           /\ (FirstExisting # 0 =>
                 /\ rec.sprigPath \in { "", possiblePaths[FirstExisting] }
                 /\ (rec.pc = "done" => rec.sprigPath = possiblePaths[FirstExisting])
                 /\ \A k \in 1..Len(rec.spawned) :
                       rec.spawned[k].file = possiblePaths[FirstExisting])

\* Several candidates exist, the first of them is not the head of the list,
\* and it is the one that was spawned.
C6_Witness ==
    /\ Cardinality(exists) >= 2 /\ FirstExisting > 1
    /\ \E r \in RunIds :
          /\ runs[r].pc = "done"
          /\ Len(runs[r].probed) = FirstExisting
          /\ Len(runs[r].spawned) = 1
          /\ runs[r].spawned[1].file = possiblePaths[FirstExisting]

\* C7: at most one spawned executable is in progress at any time, and every
\* spawn passes no arguments and the detached option.
C7_AtMostOneSpawn ==
    /\ children <= 1
    /\ \A r \in RunIds : \A k \in 1..Len(runs[r].spawned) :
          runs[r].spawned[k].args = << >> /\ runs[r].spawned[k].detached

\* C8: while the extension is active, the six commands are registered.
C8_CommandsRegistered ==
    hostState = "active" =>
       { "sprig.saveSelection", "sprig.openBrowser", "sprig.searchSnippets",
         "sprig.insertSnippet", "sprig.quickSave", "sprig.iconClick" } \subseteq registered

\* The extension is still active after a command has run to its end.
C8_Witness ==
    /\ hostState = "active"
    /\ \E r \in RunIds : runs[r].pc = "done"

\* C10: `where` is queried only after all candidates were probed and none
\* exists, for Sprig.exe first and for sprig.exe only once the first lookup
\* has ended without a path; a path of the first lookup is kept; the search
\* is resolved exactly once, with no lookup outstanding, before the run
\* launches or prompts.
C10_PathLookupOrder ==
    \A r \in RunIds :
       LET rec == runs[r] IN
       /\ rec.lookups \in { << >>, << "Sprig.exe" >>, << "Sprig.exe", "sprig.exe" >> }
       /\ Cardinality(rec.lookInflight) <= 1
       /\ \A name \in rec.lookInflight : name = rec.lookups[Len(rec.lookups)]
       /\ (rec.lookups # << >> =>
             /\ Len(rec.probed) = Len(possiblePaths)
             /\ rec.inflight = {}
             /\ \A i \in 1..Len(possiblePaths) : ~fileExists(i))
       /\ (Len(rec.lookups) = 2 => ~Yields("Sprig.exe"))
       /\ rec.resolves <= 1
       /\ (rec.pc = "where" => rec.resolves = 0)
       /\ (rec.pc \in { "prompt", "done" } /\ rec.lookups # << >> =>
             /\ rec.resolves = 1
             /\ rec.lookInflight = {}
             /\ (Yields("Sprig.exe") =>
                   Len(rec.lookups) = 1
                   /\ rec.sprigPath = whereOut["Sprig.exe"].stdout[1])
             /\ (~Yields("Sprig.exe") =>
                   /\ Len(rec.lookups) = 2
                   /\ rec.sprigPath = IF Yields("sprig.exe")
                                      THEN whereOut["sprig.exe"].stdout[1] ELSE ""))

\* Both lookups ran, the lowercase one found the path, and it was spawned.
C10_Witness ==
    \E r \in RunIds :
       /\ runs[r].pc = "done"
       /\ runs[r].lookups = << "Sprig.exe", "sprig.exe" >>
       /\ Len(runs[r].spawned) = 1
       /\ runs[r].spawned[1].file = whereOut["sprig.exe"].stdout[1]

\* C11: when neither the candidate scan nor the PATH lookup finds an
\* executable and the development-mode project marker file exists, the run
\* goes to the run-from-source states and never to the download prompt, which
\* is reached only when the marker is absent too.
C11_DevMarkerRunsFromSource ==
    \A r \in RunIds :
       LET rec == runs[r] IN
       ( rec.pc = "prompt" \/ \E k \in DOMAIN rec.notes : rec.notes[k] = "notInstalled" )
          => ~devMarker

\* C12: sprig.saveSelection calls saveItem, and so makes a store operation,
\* writes a row or shows the 'Saved' message, only with a non-empty
\* selection, a non-empty title and one of the four types; a run that
\* stopped at a guard made no store operation and showed no 'Saved' message;
\* a cancelled tags prompt still calls saveItem, with empty tags;
\* sprig.quickSave dispatches to sprig.saveSelection only when it found an
\* editor with a non-empty selection, and does nothing to the store itself.
C12_SaveCommandsGuarded ==
    /\ \A c \in CallIds :
          LET r == calls[c] IN
          /\ r.cmd = "save" =>
                /\ ( r.item # NoItem \/ r.attempts > 0 \/ r.conn # "none"
                       \/ r.msg \in { "saved", "saveError" } ) =>
                      /\ r.item.content # ""
                      /\ r.item.title # ""
                      /\ r.item.type \in ItemTypes
                /\ r.item = NoItem =>
                      /\ r.pc = "done" /\ r.attempts = 0 /\ r.conn = "none"
                      /\ r.returned = "none"
                      /\ r.msg \in { "selectSomeCode", "none" }
                /\ r.tagsIn = "undefined" => (r.item # NoItem /\ r.item.tags = "")
                /\ r.item.tags # "undefined"
          /\ r.cmd = "quick" =>
                /\ r.pc \in { "dispatched", "done" }
                /\ r.pc = "dispatched" => r.quick = "selection"
                /\ r.pc = "done" =>
                      /\ r.quick \in { "none", "empty" }
                      /\ r.msg = IF r.quick = "none" THEN "noActiveEditor"
                                                    ELSE "selectFirst"
                /\ r.item = NoItem /\ r.attempts = 0 /\ r.conn = "none"
    /\ \A k \in DOMAIN items :
          /\ items[k].content # "" /\ items[k].title # ""
          /\ items[k].type \in ItemTypes
          /\ items[k].tags # "undefined"

\* A save whose tags prompt was cancelled returned: its row is in the store
\* with empty tags and the 'Saved' message was shown.
C12_Witness ==
    \E c \in CallIds :
       LET r == calls[c] IN
       /\ r.cmd = "save" /\ r.pc = "done" /\ r.msg = "saved"
       /\ r.tagsIn = "undefined"
       /\ r.n < Len(items)
       /\ RowInput(items[r.n + 1]) = r.item
       /\ items[r.n + 1].tags = ""

====
